---- MODULE Spec2Model ----
(***************************************************************************)
(* minecraft-ondemand CDK stack: configuration loading (cdk/lib/config.ts) *)
(* and topology construction (cdk/lib/minecraft-stack.ts).                 *)
(*                                                                         *)
(* Strings are sequences of chunks; string concatenation is \o.  JSON text *)
(* is a sequence of tokens; JSON values are tagged records.                *)
(***************************************************************************)
EXTENDS Integers, Sequences, FiniteSets, TLC

VARIABLES
  env,            \* process.env: the variables config.ts reads
  config,         \* the StackConfig returned by resolveConfig
  diagnostics,    \* number of console.error calls so far
  pc,             \* position of the build: "config","shared","zone","sns","maintenance","loop","done"
  loopIndex,      \* number of tenant keys the forEach has processed
  constructs,     \* the construct tree: set of [type, id]
  taskDefinitions,\* FargateTaskDefinition props per construct
  containers,     \* ContainerDefinition props per construct
  services,       \* FargateService props per construct
  ingressRules,   \* serviceSecurityGroup's direct ingress rules, in order
  ingressCalls,   \* number of addIngressRule calls made on serviceSecurityGroup
  efsAllowedFrom, \* peers allowed to reach the file system's default port
  policies,       \* iam.Policy constructs: [id, statements]
  attachments,    \* set of [policy, role]: policy.attachToRole(role)
  ssmStore,       \* the external parameter store: name -> version of its value
  ssmChanges,     \* number of external changes of the store so far
  ssmLookups,     \* SSMParameterReader constructs created: sequence of [id, name, region, value]
  hostedZoneId,   \* const hostedZoneId
  snsTopicArn,    \* let snsTopicArn
  subscriptions,  \* sns.Subscription props
  mountPc,        \* maintenance host boot script position
  hasMountEfs,    \* whether /sbin/mount.efs exists on the host
  clientInfoPresent, \* whether efs-utils.conf already holds the [client-info] marker
  fstab,          \* the entries the script appended to /etc/fstab
  efsUtilsConf,   \* number of [client-info] markers the script appended to efs-utils.conf
  retryCnt,       \* shell variable retryCnt
  mountAttempts,  \* number of `mount -a` invocations so far
  mounted,        \* whether the last mount returned 0
  sleptSeconds,   \* total seconds slept by the loop
  sleeps,         \* number of sleep invocations
  instanceState,  \* "running" | "terminated"
  wdState,        \* per tenant: watchdog loop state
  desiredCount,   \* per service name: the service's desired task count
  scaleRequests   \* the scale-to-zero request issued by the latest poll that issued one

buildVars == <<env, config, diagnostics, pc, loopIndex, constructs, taskDefinitions,
               containers, services, ingressRules, ingressCalls, efsAllowedFrom,
               policies, attachments, ssmStore, ssmChanges, ssmLookups, hostedZoneId,
               snsTopicArn, subscriptions>>
mountVars == <<mountPc, hasMountEfs, clientInfoPresent, fstab, efsUtilsConf, retryCnt,
               mountAttempts, mounted, sleptSeconds, sleeps, instanceState>>
watchdogVars == <<wdState, desiredCount, scaleRequests>>
vars == <<buildVars, mountVars, watchdogVars>>

(***************************************************************************)
(* Bounds of the model.                                                    *)
(***************************************************************************)
MaxTenants == 2
MaxSsmChanges == 1
MaxConnections == 1

(***************************************************************************)
(* JSON values and JSON text.                                              *)
(***************************************************************************)
Undefined == [t |-> "undefined", n |-> 0, s |-> <<>>, m |-> <<>>]
Null      == [t |-> "null", n |-> 0, s |-> <<>>, m |-> <<>>]
Num(n)    == [t |-> "num", n |-> n, s |-> <<>>, m |-> <<>>]
Str(s)    == [t |-> "str", n |-> 0, s |-> s, m |-> <<>>]
Obj(m)    == [t |-> "obj", n |-> 0, s |-> <<>>, m |-> m]
Member(k, v) == [k |-> k, v |-> v]

Tok(kind, s, n) == [tk |-> kind, s |-> s, n |-> n]
LBrace == Tok("{", <<>>, 0)
RBrace == Tok("}", <<>>, 0)
Colon  == Tok(":", <<>>, 0)
Comma  == Tok(",", <<>>, 0)
NullTok == Tok("null", <<>>, 0)
StrTok(s) == Tok("str", s, 0)
NumTok(n) == Tok("num", <<>>, n)
BadTok == Tok("bad", <<>>, 0)   \* a bare word such as `not`, never part of JSON text

\* Object property lookup: obj[k], undefined when absent or when obj is no object.
RECURSIVE LookupFrom(_, _, _)
LookupFrom(m, k, i) ==
  IF i > Len(m) THEN Undefined
  ELSE IF m[i].k = k THEN m[i].v
  ELSE LookupFrom(m, k, i + 1)
Get(obj, k) == IF obj.t = "obj" THEN LookupFrom(obj.m, k, 1) ELSE Undefined

HasKey(m, k) == \E i \in 1..Len(m) : m[i].k = k
\* Property assignment: an existing key keeps its position, a new key is appended.
Put(m, k, v) ==
  IF HasKey(m, k)
  THEN [i \in 1..Len(m) |-> IF m[i].k = k THEN Member(k, v) ELSE m[i]]
  ELSE Append(m, Member(k, v))

ParseFail == [ok |-> FALSE, val |-> Undefined, next |-> 0]
ParseOk(v, n) == [ok |-> TRUE, val |-> v, next |-> n]

RECURSIVE ParseValue(_, _)
RECURSIVE ParseMembers(_, _, _)
\* value at position i of the token sequence
ParseValue(toks, i) ==
  IF i > Len(toks) THEN ParseFail
  ELSE CASE toks[i].tk = "num"  -> ParseOk(Num(toks[i].n), i + 1)
         [] toks[i].tk = "str"  -> ParseOk(Str(toks[i].s), i + 1)
         [] toks[i].tk = "null" -> ParseOk(Null, i + 1)
         [] toks[i].tk = "{"    ->
              IF i + 1 <= Len(toks) /\ toks[i + 1].tk = "}"
              THEN ParseOk(Obj(<<>>), i + 2)
              ELSE ParseMembers(toks, i + 1, <<>>)
         [] OTHER -> ParseFail
\* members of an object from position i on, acc the members read so far
ParseMembers(toks, i, acc) ==
  IF i + 1 > Len(toks) \/ toks[i].tk # "str" \/ toks[i + 1].tk # ":" THEN ParseFail
  ELSE LET r == ParseValue(toks, i + 2) IN
       IF ~r.ok \/ r.next > Len(toks) THEN ParseFail
       ELSE LET acc2 == Put(acc, toks[i].s, r.val) IN
            CASE toks[r.next].tk = "," -> ParseMembers(toks, r.next + 1, acc2)
              [] toks[r.next].tk = "}" -> ParseOk(Obj(acc2), r.next + 1)
              [] OTHER -> ParseFail

\* JSON.parse(text): the value, or a SyntaxError thrown.
JSON_parse(toks) ==
  LET r == ParseValue(toks, 1) IN
  IF r.ok /\ r.next = Len(toks) + 1
  THEN [threw |-> FALSE, val |-> r.val]
  ELSE [threw |-> TRUE, val |-> Undefined]

Digits == <<"0", "1", "2", "3", "4", "5", "6", "7", "8", "9">>
\* { ...defaults, ...value }: own enumerable properties of the value
Spread(v) ==
  CASE v.t = "obj" -> v.m
    [] v.t = "str" -> [i \in 1..Len(v.s) |-> Member(<<Digits[i]>>, Str(<<v.s[i]>>))]
    [] OTHER -> <<>>

\* JSON.stringify restricted to the values above: the JSON text of a value.
RECURSIVE Stringify(_)
RECURSIVE StringifyMembers(_, _)
Stringify(v) ==
  CASE v.t = "num" -> <<NumTok(v.n)>>
    [] v.t = "str" -> <<StrTok(v.s)>>
    [] v.t = "obj" -> <<LBrace>> \o StringifyMembers(v.m, 1) \o <<RBrace>>
    [] OTHER -> <<NullTok>>
StringifyMembers(m, i) ==
  IF i > Len(m) THEN <<>>
  ELSE <<StrTok(m[i].k), Colon>> \o Stringify(m[i].v)
       \o (IF i < Len(m) THEN <<Comma>> ELSE <<>>)
       \o StringifyMembers(m, i + 1)

(***************************************************************************)
(* The inputs: tenant keys, tenant definitions, and the texts an operator  *)
(* may put in MINECRAFT_SERVER_DEFS_JSON.                                  *)
(***************************************************************************)
KeyUniverse == << <<"a">>, <<"b">>, <<"s1">>, <<"c">> >>
Keys == {KeyUniverse[i] : i \in 1..MaxTenants}

FullDef == Obj(<<Member(<<"cpu">>, Num(512)), Member(<<"memory">>, Num(1024)),
                 Member(<<"containerEnv">>, Obj(<<>>))>>)
NoCpuDef == Obj(<<Member(<<"memory">>, Num(1024)), Member(<<"containerEnv">>, Obj(<<>>))>>)
NoMemoryDef == Obj(<<Member(<<"cpu">>, Num(512)), Member(<<"containerEnv">>, Obj(<<>>))>>)
\* the shape .env.sample gives: neither cpu nor memory
SampleDef == Obj(<<Member(<<"functionUrlEnabled">>, Str(<<"true">>)),
                   Member(<<"containerEnv">>,
                          Obj(<<Member(<<"DATA_SUBPATH">>, Str(<<"data">>))>>))>>)
DefKinds == {FullDef, NoCpuDef, NoMemoryDef, SampleDef}

\* the members of a tenant map over key set S with definitions f, in key order
RECURSIVE MembersOf(_, _, _)
MembersOf(S, f, i) ==
  IF i > Len(KeyUniverse) THEN <<>>
  ELSE (IF KeyUniverse[i] \in S THEN <<Member(KeyUniverse[i], f[KeyUniverse[i]])>> ELSE <<>>)
       \o MembersOf(S, f, i + 1)
TenantMapsOver(Kinds) ==
  UNION { { Obj(MembersOf(S, f, 1)) : f \in [S -> Kinds] } : S \in SUBSET Keys }
\* every map over the definitions with a cpu or the sample's shape, and every
\* one-tenant map
TenantMaps ==
  TenantMapsOver({FullDef, NoCpuDef, SampleDef})
  \cup { Obj(<<Member(k, d)>>) : k \in Keys, d \in DefKinds }

\* well-formed JSON texts: every tenant map, a map written with a repeated key,
\* a map in reverse key order, and texts whose value is no object
WellFormedTexts ==
  { Stringify(v) : v \in TenantMaps }
  \cup { <<LBrace, StrTok(<<"a">>), Colon>> \o Stringify(FullDef)
         \o <<Comma, StrTok(<<"a">>), Colon>> \o Stringify(NoCpuDef) \o <<RBrace>>,
         Stringify(Obj(<<Member(<<"b">>, FullDef), Member(<<"a">>, SampleDef)>>)),
         <<NullTok>>, <<NumTok(7)>>, <<StrTok(<<"x", "y">>)>>,
         Stringify(Obj(<<Member(<<"a">>, Num(1))>>)) }

\* the tenant maps whose texts are damaged: every map of complete definitions and
\* every one-tenant map
DamagedMaps ==
  TenantMapsOver({FullDef})
  \cup { Obj(<<Member(k, d)>>) : k \in Keys, d \in DefKinds }
\* texts that are not JSON: the empty text, `{not json`, every proper non-empty
\* prefix of such a map's text, the text with a bare word put in, with its closing
\* brace doubled, or with a comma before the closing brace
Prefixes(t) == { SubSeq(t, 1, n) : n \in 1..(Len(t) - 1) }
WithBadTok(t) == { SubSeq(t, 1, n) \o <<BadTok>> \o SubSeq(t, n + 1, Len(t)) : n \in 0..Len(t) }
MalformedTexts ==
  { <<>>, <<LBrace, BadTok, BadTok>>, <<BadTok>>, <<RBrace>>, <<LBrace, RBrace, RBrace>> }
  \cup UNION { Prefixes(Stringify(v)) : v \in DamagedMaps }
  \cup UNION { WithBadTok(Stringify(v)) : v \in DamagedMaps }
  \cup { Stringify(v) \o <<RBrace>> : v \in DamagedMaps }
  \cup { SubSeq(Stringify(v), 1, Len(Stringify(v)) - 1) \o <<Comma, RBrace>> : v \in DamagedMaps }

EnvVar(isSet, v) == [set |-> isSet, v |-> v]
Unset == EnvVar(FALSE, <<>>)
\* process.env.X || dflt, for string values
OrDefault(x, dflt) == IF x.set /\ x.v # <<>> THEN x.v ELSE dflt

JsonEnvValues ==
  {Unset} \cup { EnvVar(TRUE, t) : t \in WellFormedTexts \cup MalformedTexts }

(***************************************************************************)
(* config.ts                                                               *)
(***************************************************************************)
\* a catch block that falls back without console.error
resolveMinecraftServerDefs_silent(json) ==
  LET text == IF json.set THEN json.v ELSE <<>>
      parsed == JSON_parse(text)
  IN IF parsed.threw
     THEN [defs |-> <<>>, errors |-> 0]
     ELSE [defs |-> Spread(parsed.val), errors |-> 0]

\* resolveMinecraftServerDefs(json = ''): [defs, errors] where errors counts the
\* console.error calls made
resolveMinecraftServerDefs(json) ==
  LET text == IF json.set THEN json.v ELSE <<>>
      parsed == JSON_parse(text)
      defaults == <<>>
  IN IF parsed.threw
     THEN [defs |-> defaults, errors |-> 1]
     ELSE [defs |-> defaults \o Spread(parsed.val), errors |-> 0]

resolveConfig(e) ==
  [ domainName |-> OrDefault(e.DOMAIN_NAME, <<>>),
    serverRegion |-> OrDefault(e.SERVER_REGION, <<"us-east-1">>),
    minecraftEdition |->
      IF e.MINECRAFT_EDITION.set /\ e.MINECRAFT_EDITION.v = <<"bedrock">>
      THEN "bedrock" ELSE "java",
    shutdownMinutes |-> OrDefault(e.SHUTDOWN_MINUTES, <<"2", "0">>),
    startupMinutes |-> OrDefault(e.STARTUP_MINUTES, <<"1", "0">>),
    snsEmailAddress |-> OrDefault(e.SNS_EMAIL_ADDRESS, <<>>),
    minecraftServerDefs |-> resolveMinecraftServerDefs(e.MINECRAFT_SERVER_DEFS_JSON).defs ]

\* the configuration before resolveConfig has run
NoConfig ==
  [ domainName |-> <<>>, serverRegion |-> <<>>, minecraftEdition |-> "java",
    shutdownMinutes |-> <<>>, startupMinutes |-> <<>>, snsEmailAddress |-> <<>>,
    minecraftServerDefs |-> <<>> ]

(***************************************************************************)
(* constants.ts and util.ts (not among the sources; values as the stack    *)
(* uses them).                                                             *)
(***************************************************************************)
CLUSTER_NAME == <<"minecraft">>
SERVICE_NAME == <<"minecraft-server">>
ECS_VOLUME_NAME == <<"data">>
MC_SERVER_CONTAINER_NAME == <<"minecraft-server">>
WATCHDOG_SERVER_CONTAINER_NAME == <<"minecraft-ecsfargate-watchdog">>
HOSTED_ZONE_SSM_PARAMETER == <<"MinecraftHostedZoneID">>
LAUNCHER_LAMBDA_ARN_SSM_PARAMETER == <<"LauncherLambdaRoleArn">>
DOMAIN_STACK_REGION == <<"us-east-1">>

\* getMinecraftServerConfig(edition): image, port, protocol and ingress rule port
getMinecraftServerConfig(edition) ==
  IF edition = "bedrock"
  THEN [image |-> <<"itzg/minecraft-bedrock-server">>, port |-> 19132,
        protocol |-> "udp", ingressRulePort |-> <<"UDP 19132">>]
  ELSE [image |-> <<"itzg/minecraft-server">>, port |-> 25565,
        protocol |-> "tcp", ingressRulePort |-> <<"25565">>]

\* SSMParameterReader(...).getParameterValue(): the value the store holds for the
\* name at the time of the lookup.  The control-plane stack publishes one value per
\* parameter name; a later version of a parameter is a different value.
getParameterValue(store, name) == <<"value-of:">> \o name \o <<"#", Digits[store[name] + 1]>>

(***************************************************************************)
(* minecraft-stack.ts: names, ARNs and policies                            *)
(***************************************************************************)
Construct(type, id) == [type |-> type, id |-> id]
FileSystemId == <<"FileSystem">>
AccessPointId == <<"AccessPoint">>
TaskRoleId == <<"TaskRole">>
ClusterId == <<"Cluster">>
ServiceSecurityGroupId == <<"ServiceSecurityGroup">>
EfsMaintenanceSecurityGroupId == <<"EfsMaintenanceSecurityGroup">>
EFSMaintenanceRoleId == <<"EFSMaintenanceRole">>
DataRWPolicyId == <<"DataRWPolicy">>

\* Object.keys(config.minecraftServerDefs)
ObjectKeys(m) == [i \in 1..Len(m) |-> m[i].k]
DefOf(m, key) == LookupFrom(m, key, 1)

TaskDefinitionId(key) == <<"TaskDefinition-">> \o key
ServerContainerId(key) == <<"ServerContainer-">> \o key
FargateServiceId(key) == <<"FargateService-">> \o key
WatchDogContainerId(key) == <<"WatchDogContainer-">> \o key
ServiceControlPolicyId(key) == <<"ServiceControlPolicy-">> \o key
launcherLambdaRoleArnId(key) == <<"launcherLambdaRoleArn-">> \o key
LauncherLambdaRoleId(key) == <<"LauncherLambdaRole-">> \o key
IamRoute53PolicyId(key) == <<"IamRoute53Policy-">> \o key
ServiceName(key) == SERVICE_NAME \o <<"-">> \o key
LauncherParameterName_shared(key) == LAUNCHER_LAMBDA_ARN_SSM_PARAMETER
LauncherParameterName(key) == LAUNCHER_LAMBDA_ARN_SSM_PARAMETER \o <<"-">> \o key

\* the parameter names of the external store
SsmParameterNames ==
  {HOSTED_ZONE_SSM_PARAMETER}
  \cup { LauncherParameterName(k) : k \in Keys \cup {<<"0">>, <<"1">>} }

\* minecraftServerService.serviceArn
ServiceArn(serviceName) ==
  <<"arn:aws:ecs:", "region:account", ":service/">> \o CLUSTER_NAME \o <<"/">> \o serviceName
\* Arn.format({service: 'ecs', resource: 'task', resourceName: `${CLUSTER_NAME}/*`})
TaskArnPattern ==
  <<"arn:aws:ecs:", "region:account", ":task/">> \o CLUSTER_NAME \o <<"/", "*">>
HostedZoneArn(zoneId) == <<"arn:aws:route53:::hostedzone/">> \o zoneId

Statement(sid, actions, resources) == [sid |-> sid, actions |-> actions, resources |-> resources]

\* an ingress rule whose description carries the tenant key
IngressRule_perTenant(cfg, key) ==
  LET c == getMinecraftServerConfig(cfg.minecraftEdition) IN
  [peer |-> "0.0.0.0/0", port |-> c.ingressRulePort,
   description |-> <<"Minecraft-Server-Ingress-">> \o key]

\* the ingress rule the tenant loop asks for
IngressRule(cfg, key) ==
  LET c == getMinecraftServerConfig(cfg.minecraftEdition) IN
  [peer |-> "0.0.0.0/0", port |-> c.ingressRulePort,
   description |-> <<"Minecraft-Server-Ingress-">> \o c.ingressRulePort]

\* SecurityGroup.addIngressRule: a rule equal to one already held is not added again
addIngressRule(rules, rule) ==
  IF \E i \in 1..Len(rules) : rules[i] = rule THEN rules ELSE Append(rules, rule)

\* new ecs.FargateTaskDefinition(this, 'TaskDefinition-' + key, {...})
TaskDefinition(def, key) ==
  [id |-> TaskDefinitionId(key), taskRole |-> TaskRoleId,
   memoryLimitMiB |-> Get(def, <<"memory">>), cpu |-> Get(def, <<"cpu">>),
   volume |-> [name |-> ECS_VOLUME_NAME, fileSystemId |-> FileSystemId,
               accessPointId |-> AccessPointId, transitEncryption |-> "ENABLED",
               iam |-> "ENABLED"]]

\* new ecs.ContainerDefinition(this, 'ServerContainer-' + key, {...})
ServerContainer(cfg, def, key) ==
  LET c == getMinecraftServerConfig(cfg.minecraftEdition) IN
  [id |-> ServerContainerId(key), kind |-> "server",
   containerName |-> MC_SERVER_CONTAINER_NAME \o <<"-">> \o key,
   image |-> c.image, port |-> c.port, protocol |-> c.protocol,
   environment |-> Get(def, <<"containerEnv">>),
   essential |-> TRUE, taskDefinition |-> TaskDefinitionId(key)]

\* a service that is given a cluster of its own instead of the shared one
FargateService_ownCluster(key) ==
  [id |-> FargateServiceId(key), cluster |-> <<"Cluster-">> \o key,
   taskDefinition |-> TaskDefinitionId(key), serviceName |-> ServiceName(key),
   desiredCount |-> 0, assignPublicIp |-> TRUE,
   securityGroups |-> {ServiceSecurityGroupId}]

\* new ecs.FargateService(this, 'FargateService-' + key, {...})
FargateService(key) ==
  [id |-> FargateServiceId(key), cluster |-> ClusterId,
   taskDefinition |-> TaskDefinitionId(key), serviceName |-> ServiceName(key),
   desiredCount |-> 0, assignPublicIp |-> TRUE,
   securityGroups |-> {ServiceSecurityGroupId}]

\* an environment whose two timeouts are exchanged
WatchdogEnvironment_swapped(cfg, key, zoneId, topicArn) ==
  [CLUSTER |-> CLUSTER_NAME, SERVICE |-> ServiceName(key), DNSZONE |-> zoneId,
   SERVERNAME |-> key \o <<".">> \o cfg.domainName, SNSTOPIC |-> topicArn,
   STARTUPMIN |-> cfg.shutdownMinutes, SHUTDOWNMIN |-> cfg.startupMinutes]

\* the environment of the watchdog container
WatchdogEnvironment(cfg, key, zoneId, topicArn) ==
  [CLUSTER |-> CLUSTER_NAME, SERVICE |-> ServiceName(key), DNSZONE |-> zoneId,
   SERVERNAME |-> key \o <<".">> \o cfg.domainName, SNSTOPIC |-> topicArn,
   STARTUPMIN |-> cfg.startupMinutes, SHUTDOWNMIN |-> cfg.shutdownMinutes]

\* new ecs.ContainerDefinition(this, 'WatchDogContainer-' + key, {...})
WatchdogContainer(cfg, key, zoneId, topicArn) ==
  [id |-> WatchDogContainerId(key), kind |-> "watchdog",
   containerName |-> WATCHDOG_SERVER_CONTAINER_NAME \o <<"-">> \o key,
   environment |-> WatchdogEnvironment(cfg, key, zoneId, topicArn),
   essential |-> TRUE, taskDefinition |-> TaskDefinitionId(key)]

\* a control policy scoped to every service of the cluster instead of this one
serviceControlPolicy_anyService(key) ==
  [id |-> ServiceControlPolicyId(key),
   statements |->
     { Statement(<<"AllowAllOnServiceAndTask">> \o key, {<<"ecs", "*">>},
                 {<<"arn:aws:ecs:", "region:account", ":service/">> \o CLUSTER_NAME \o <<"/", "*">>,
                  TaskArnPattern}),
       Statement(<<>>, {<<"ec2", "DescribeNetworkInterfaces">>}, {<<"*">>}) }]

\* new iam.Policy(this, 'ServiceControlPolicy-' + key, {...})
serviceControlPolicy(key) ==
  [id |-> ServiceControlPolicyId(key),
   statements |->
     { Statement(<<"AllowAllOnServiceAndTask">> \o key, {<<"ecs", "*">>},
                 {ServiceArn(ServiceName(key)), TaskArnPattern}),
       Statement(<<>>, {<<"ec2", "DescribeNetworkInterfaces">>}, {<<"*">>}) }]

\* new iam.Policy(this, 'IamRoute53Policy-' + key, {...})
iamRoute53Policy(key, zoneId) ==
  [id |-> IamRoute53PolicyId(key),
   statements |->
     { Statement(<<"AllowEditRecordSets">>,
                 {<<"route53", "GetHostedZone">>, <<"route53", "ChangeResourceRecordSets">>,
                  <<"route53", "ListResourceRecordSets">>},
                 {HostedZoneArn(zoneId)}) }]

\* the roles serviceControlPolicy is attached to; launcherArn is the resolved ARN
ControlPolicyRoles(key, launcherArn) == {TaskRoleId, launcherArn}
\* the DNS-edit policy also attached to the launcher
Route53PolicyRoles_withLauncher(key, launcherArn) == {TaskRoleId, launcherArn}

\* the roles iamRoute53Policy is attached to
Route53PolicyRoles(key, launcherArn) == {TaskRoleId}

efsReadWriteDataPolicy ==
  [id |-> DataRWPolicyId,
   statements |->
     { Statement(<<"AllowReadWriteOnEFS">>,
                 {<<"elasticfilesystem", "ClientMount">>, <<"elasticfilesystem", "ClientWrite">>,
                  <<"elasticfilesystem", "DescribeFileSystems">>},
                 {<<"arn:aws:elasticfilesystem:">> \o FileSystemId}) }]

Attach(policyId, roles) == { [policy |-> policyId, role |-> r] : r \in roles }

(***************************************************************************)
(* The build: resolveConfig, then the MinecraftStack constructor.          *)
(***************************************************************************)
Env(json, edition, email, region, startup, shutdown) ==
  [ DOMAIN_NAME |-> EnvVar(TRUE, <<"minecraft.example.com">>),
    SERVER_REGION |-> region,
    MINECRAFT_EDITION |-> edition,
    SHUTDOWN_MINUTES |-> shutdown,
    STARTUP_MINUTES |-> startup,
    SNS_EMAIL_ADDRESS |-> email,
    MINECRAFT_SERVER_DEFS_JSON |-> json ]

EditionEnvValues == {Unset, EnvVar(TRUE, <<"bedrock">>), EnvVar(TRUE, <<"Bedrock">>)}
EmailEnvValues == {Unset, EnvVar(TRUE, <<>>), EnvVar(TRUE, <<"ops@example.com">>)}

BuildStart ==
  /\ config = NoConfig
  /\ diagnostics = 0
  /\ pc = "config"
  /\ loopIndex = 0
  /\ constructs = {}
  /\ taskDefinitions = {}
  /\ containers = {}
  /\ services = {}
  /\ ingressRules = <<>>
  /\ ingressCalls = 0
  /\ efsAllowedFrom = {}
  /\ policies = {}
  /\ attachments = {}
  /\ ssmStore = [n \in SsmParameterNames |-> 0]
  /\ ssmChanges = 0
  /\ ssmLookups = <<>>
  /\ hostedZoneId = <<>>
  /\ snsTopicArn = <<>>
  /\ subscriptions = {}

MountOff ==
  /\ mountPc = "off"
  /\ hasMountEfs = FALSE
  /\ clientInfoPresent = FALSE
  /\ fstab = <<>>
  /\ efsUtilsConf = 0
  /\ retryCnt = 0
  /\ mountAttempts = 0
  /\ mounted = FALSE
  /\ sleptSeconds = 0
  /\ sleeps = 0
  /\ instanceState = "none"

WatchdogOff ==
  /\ wdState = <<>>
  /\ desiredCount = <<>>
  /\ scaleRequests = {}

Init ==
  /\ env \in { Env(j, ed, em, Unset, Unset, Unset) :
                 j \in JsonEnvValues, ed \in EditionEnvValues, em \in EmailEnvValues }
  /\ BuildStart
  /\ MountOff
  /\ WatchdogOff

\* const config = resolveConfig()
ResolveConfig ==
  /\ pc = "config"
  /\ config' = resolveConfig(env)
  /\ diagnostics' = diagnostics
                    + resolveMinecraftServerDefs(env.MINECRAFT_SERVER_DEFS_JSON).errors
  /\ pc' = "shared"
  /\ UNCHANGED <<env, loopIndex, constructs, taskDefinitions, containers, services,
                 ingressRules, ingressCalls, efsAllowedFrom, policies, attachments,
                 ssmStore, ssmChanges, ssmLookups, hostedZoneId, snsTopicArn,
                 subscriptions, mountVars, watchdogVars>>

\* vpc, fileSystem, accessPoint, efsReadWriteDataPolicy, ecsTaskRole, cluster,
\* serviceSecurityGroup
SharedNodes ==
  /\ pc = "shared"
  /\ constructs' = constructs \cup
       { Construct("Vpc", <<"Vpc">>), Construct("FileSystem", FileSystemId),
         Construct("AccessPoint", AccessPointId), Construct("Policy", DataRWPolicyId),
         Construct("Role", TaskRoleId), Construct("Cluster", ClusterId),
         Construct("SecurityGroup", ServiceSecurityGroupId) }
  /\ policies' = policies \cup {efsReadWriteDataPolicy}
  /\ attachments' = attachments \cup Attach(DataRWPolicyId, {TaskRoleId})
  /\ pc' = "zone"
  /\ UNCHANGED <<env, config, diagnostics, loopIndex, taskDefinitions, containers,
                 services, ingressRules, ingressCalls, efsAllowedFrom, ssmStore,
                 ssmChanges, ssmLookups, hostedZoneId, snsTopicArn, subscriptions,
                 mountVars, watchdogVars>>

SsmLookup(id, name, value) ==
  [id |-> id, name |-> name, region |-> DOMAIN_STACK_REGION, value |-> value]

\* const hostedZoneId = new SSMParameterReader(...).getParameterValue()
ReadHostedZoneId ==
  /\ pc = "zone"
  /\ constructs' = constructs \cup {Construct("SSMParameterReader", <<"Route53HostedZoneIdReader">>)}
  /\ ssmLookups' = Append(ssmLookups,
                          SsmLookup(<<"Route53HostedZoneIdReader">>, HOSTED_ZONE_SSM_PARAMETER,
                                    getParameterValue(ssmStore, HOSTED_ZONE_SSM_PARAMETER)))
  /\ hostedZoneId' = getParameterValue(ssmStore, HOSTED_ZONE_SSM_PARAMETER)
  /\ pc' = "sns"
  /\ UNCHANGED <<env, config, diagnostics, loopIndex, taskDefinitions, containers,
                 services, ingressRules, ingressCalls, efsAllowedFrom, policies,
                 attachments, ssmStore, ssmChanges, snsTopicArn, subscriptions,
                 mountVars, watchdogVars>>

ServerSnsTopicId == <<"ServerSnsTopic">>
TopicArn(topicId) == <<"arn:aws:sns:">> \o topicId

\* the constructs the SNS block creates for the configuration
SnsConstructs(cfg) ==
  IF cfg.snsEmailAddress # <<>>
  THEN { Construct("Topic", ServerSnsTopicId), Construct("Subscription", <<"EmailSubscription">>) }
  ELSE {}
\* the topic is created but snsTopicArn is never assigned
SnsTopicArnFor_unassigned(cfg) == <<>>

\* the value of snsTopicArn after the SNS block
SnsTopicArnFor(cfg) ==
  IF cfg.snsEmailAddress # <<>> THEN TopicArn(ServerSnsTopicId) ELSE <<>>

\* let snsTopicArn = ''; if (config.snsEmailAddress) {...}
CreateSnsTopic ==
  /\ pc = "sns"
  /\ constructs' = constructs \cup SnsConstructs(config)
  /\ subscriptions' =
       IF config.snsEmailAddress # <<>>
       THEN subscriptions \cup { [id |-> <<"EmailSubscription">>, protocol |-> "email",
                                  topic |-> ServerSnsTopicId,
                                  endpoint |-> config.snsEmailAddress] }
       ELSE subscriptions
  /\ attachments' =
       IF config.snsEmailAddress # <<>>
       THEN attachments \cup Attach(<<"ServerSnsTopic/Publish">>, {TaskRoleId})
       ELSE attachments
  /\ snsTopicArn' = SnsTopicArnFor(config)
  /\ pc' = "maintenance"
  /\ UNCHANGED <<env, config, diagnostics, loopIndex, taskDefinitions, containers,
                 services, ingressRules, ingressCalls, efsAllowedFrom, policies,
                 ssmStore, ssmChanges, ssmLookups, hostedZoneId, mountVars, watchdogVars>>

ssmManagedInstanceCorePolicy ==
  [id |-> <<"SSMManagedInstanceCorePolicy">>,
   statements |->
     { Statement(<<"AllowSSMManagedInstance">>,
                 {<<"ssm", "*">>, <<"ssmmessages", "*">>, <<"ec2messages", "*">>}, {<<"*">>}) }]

\* efsMaintenanceInstanceRole, ssmManagedInstanceCorePolicy, efsMaintenanceSecurityGroup,
\* efsMaintenanceLaunchTemplate
MaintenanceAccess ==
  /\ pc = "maintenance"
  /\ constructs' = constructs \cup
       { Construct("Role", EFSMaintenanceRoleId),
         Construct("Policy", <<"SSMManagedInstanceCorePolicy">>),
         Construct("SecurityGroup", EfsMaintenanceSecurityGroupId),
         Construct("LaunchTemplate", <<"EFSMaintenanceLaunchTemplate">>) }
  /\ policies' = policies \cup {ssmManagedInstanceCorePolicy}
  /\ attachments' = attachments
       \cup Attach(<<"SSMManagedInstanceCorePolicy">>, {EFSMaintenanceRoleId})
       \cup Attach(DataRWPolicyId, {EFSMaintenanceRoleId})
  /\ efsAllowedFrom' = efsAllowedFrom \cup {EfsMaintenanceSecurityGroupId}
  /\ pc' = "loop"
  /\ UNCHANGED <<env, config, diagnostics, loopIndex, taskDefinitions, containers,
                 services, ingressRules, ingressCalls, ssmStore, ssmChanges, ssmLookups,
                 hostedZoneId, snsTopicArn, subscriptions, mountVars, watchdogVars>>

\* one iteration of Array.from(Object.keys(config.minecraftServerDefs)).forEach(key => ...)
TenantIteration ==
  /\ pc = "loop"
  /\ loopIndex < Len(ObjectKeys(config.minecraftServerDefs))
  /\ LET key == ObjectKeys(config.minecraftServerDefs)[loopIndex + 1]
         thisMinecraftServerDef == DefOf(config.minecraftServerDefs, key)
         launcherLambdaRoleArn == getParameterValue(ssmStore, LauncherParameterName(key))
     IN
     /\ ingressRules' = addIngressRule(ingressRules, IngressRule(config, key))
     /\ ingressCalls' = ingressCalls + 1
     /\ taskDefinitions' = taskDefinitions \cup {TaskDefinition(thisMinecraftServerDef, key)}
     /\ containers' = containers \cup
          { ServerContainer(config, thisMinecraftServerDef, key),
            WatchdogContainer(config, key, hostedZoneId, snsTopicArn) }
     /\ services' = services \cup {FargateService(key)}
     /\ efsAllowedFrom' = efsAllowedFrom \cup FargateService(key).securityGroups
     /\ policies' = policies \cup {serviceControlPolicy(key), iamRoute53Policy(key, hostedZoneId)}
     /\ ssmLookups' = Append(ssmLookups,
                             SsmLookup(launcherLambdaRoleArnId(key), LauncherParameterName(key),
                                       launcherLambdaRoleArn))
     /\ attachments' = attachments
          \cup Attach(ServiceControlPolicyId(key), ControlPolicyRoles(key, launcherLambdaRoleArn))
          \cup Attach(IamRoute53PolicyId(key), Route53PolicyRoles(key, launcherLambdaRoleArn))
     /\ constructs' = constructs \cup
          { Construct("TaskDefinition", TaskDefinitionId(key)),
            Construct("ContainerDefinition", ServerContainerId(key)),
            Construct("FargateService", FargateServiceId(key)),
            Construct("ContainerDefinition", WatchDogContainerId(key)),
            Construct("Policy", ServiceControlPolicyId(key)),
            Construct("SSMParameterReader", launcherLambdaRoleArnId(key)),
            Construct("ImportedRole", LauncherLambdaRoleId(key)),
            Construct("Policy", IamRoute53PolicyId(key)) }
  /\ loopIndex' = loopIndex + 1
  /\ UNCHANGED <<env, config, diagnostics, pc, ssmStore, ssmChanges, hostedZoneId,
                 snsTopicArn, subscriptions, mountVars, watchdogVars>>

\* forEach returns: the constructor is finished
BuildDone ==
  /\ pc = "loop"
  /\ loopIndex = Len(ObjectKeys(config.minecraftServerDefs))
  /\ pc' = "done"
  /\ UNCHANGED <<env, config, diagnostics, loopIndex, constructs, taskDefinitions,
                 containers, services, ingressRules, ingressCalls, efsAllowedFrom,
                 policies, attachments, ssmStore, ssmChanges, ssmLookups, hostedZoneId,
                 snsTopicArn, subscriptions, mountVars, watchdogVars>>

\* the parameters this build reads
ParametersRead(cfg) ==
  {HOSTED_ZONE_SSM_PARAMETER}
  \cup { LauncherParameterName(ObjectKeys(cfg.minecraftServerDefs)[i]) :
           i \in 1..Len(cfg.minecraftServerDefs) }

\* the control-plane stack republishes a parameter after the build's first lookup
SsmParameterChange ==
  /\ pc \in {"sns", "maintenance", "loop"}
  /\ ssmChanges < MaxSsmChanges
  /\ \E n \in ParametersRead(config) :
       ssmStore' = [ssmStore EXCEPT ![n] = @ + 1]
  /\ ssmChanges' = ssmChanges + 1
  /\ UNCHANGED <<env, config, diagnostics, pc, loopIndex, constructs, taskDefinitions,
                 containers, services, ingressRules, ingressCalls, efsAllowedFrom,
                 policies, attachments, ssmLookups, hostedZoneId, snsTopicArn,
                 subscriptions, mountVars, watchdogVars>>

BuildNext ==
  \/ ResolveConfig
  \/ SharedNodes
  \/ ReadHostedZoneId
  \/ CreateSnsTopic
  \/ MaintenanceAccess
  \/ TenantIteration
  \/ BuildDone
  \/ SsmParameterChange

Next == BuildNext

Spec == Init /\ [][Next]_vars

(***************************************************************************)
(* The maintenance host's boot script (userData of the launch template).   *)
(***************************************************************************)
RetryCnt == 15
WaitTime == 30

\* the /etc/fstab entry of line 200
FstabEntry(cfg, mountEfs) ==
  IF mountEfs
  THEN [device |-> FileSystemId \o <<":/">>, type |-> "efs"]
  ELSE [device |-> FileSystemId \o <<".efs.">> \o cfg.serverRegion \o <<".amazonaws.com:/">>,
        type |-> "nfs4"]

\* an operator launches an instance from the launch template
LaunchMaintenanceHost ==
  /\ pc = "done"
  /\ mountPc = "off"
  /\ instanceState' = "running"
  /\ mountPc' = "install"
  /\ UNCHANGED <<buildVars, watchdogVars, hasMountEfs, clientInfoPresent, fstab,
                 efsUtilsConf, retryCnt, mountAttempts, mounted, sleptSeconds, sleeps>>

\* yum/apt-get install amazon-efs-utils, nfs-utils: whether /sbin/mount.efs exists
\* afterwards depends on the image
InstallClients ==
  /\ mountPc = "install"
  /\ hasMountEfs' \in BOOLEAN
  /\ clientInfoPresent' \in (IF hasMountEfs' THEN BOOLEAN ELSE {FALSE})
  /\ mountPc' = "fstab"
  /\ UNCHANGED <<buildVars, watchdogVars, fstab, efsUtilsConf, retryCnt, mountAttempts,
                 mounted, sleptSeconds, sleeps, instanceState>>

\* test -f /sbin/mount.efs && printf ... >> /etc/fstab || printf ... >> /etc/fstab
WriteFstab ==
  /\ mountPc = "fstab"
  /\ fstab' = Append(fstab, FstabEntry(config, hasMountEfs))
  /\ mountPc' = "clientinfo"
  /\ UNCHANGED <<buildVars, watchdogVars, hasMountEfs, clientInfoPresent, efsUtilsConf,
                 retryCnt, mountAttempts, mounted, sleptSeconds, sleeps, instanceState>>

\* test -f /sbin/mount.efs && grep ...; if [[ $? == 1 ]]; then printf ... >> efs-utils.conf; fi
\* then retryCnt=15; waitTime=30
EnsureClientInfo ==
  /\ mountPc = "clientinfo"
  /\ efsUtilsConf' = IF ~hasMountEfs \/ ~clientInfoPresent THEN efsUtilsConf + 1 ELSE efsUtilsConf
  /\ retryCnt' = RetryCnt
  /\ mountPc' = "mount"
  /\ UNCHANGED <<buildVars, watchdogVars, hasMountEfs, clientInfoPresent, fstab,
                 mountAttempts, mounted, sleptSeconds, sleeps, instanceState>>

\* mount -a -t efs,nfs4 defaults: returns 0 or fails
MountAttempt ==
  /\ mountPc = "mount"
  /\ mountAttempts' = mountAttempts + 1
  /\ mounted' \in BOOLEAN
  /\ mountPc' = "test"
  /\ UNCHANGED <<buildVars, watchdogVars, hasMountEfs, clientInfoPresent, fstab,
                 efsUtilsConf, retryCnt, sleptSeconds, sleeps, instanceState>>

\* the test written with -lt 0
LoopExits_late(ok, cnt) == ok \/ cnt < 0

\* if [ $? = 0 ] || [ $retryCnt -lt 1 ]
LoopExits(ok, cnt) == ok \/ cnt < 1

\* if ...; then echo ...; break; fi; echo ...; ((retryCnt--))
TestAndCount ==
  /\ mountPc = "test"
  /\ IF LoopExits(mounted, retryCnt)
     THEN /\ mountPc' = "done"
          /\ retryCnt' = retryCnt
     ELSE /\ retryCnt' = retryCnt - 1
          /\ mountPc' = "sleep"
  /\ UNCHANGED <<buildVars, watchdogVars, hasMountEfs, clientInfoPresent, fstab,
                 efsUtilsConf, mountAttempts, mounted, sleptSeconds, sleeps, instanceState>>

\* sleep $waitTime
Sleep ==
  /\ mountPc = "sleep"
  /\ sleptSeconds' = sleptSeconds + WaitTime
  /\ sleeps' = sleeps + 1
  /\ mountPc' = "mount"
  /\ UNCHANGED <<buildVars, watchdogVars, hasMountEfs, clientInfoPresent, fstab,
                 efsUtilsConf, retryCnt, mountAttempts, mounted, instanceState>>

BootScript ==
  \/ InstallClients
  \/ WriteFstab
  \/ EnsureClientInfo
  \/ MountAttempt
  \/ TestAndCount
  \/ Sleep

\* the build without changes of the parameter store
BuildSteps ==
  \/ ResolveConfig
  \/ SharedNodes
  \/ ReadHostedZoneId
  \/ CreateSnsTopic
  \/ MaintenanceAccess
  \/ TenantIteration
  \/ BuildDone

RegionEnvValues == {Unset, EnvVar(TRUE, <<"eu-west-1">>)}

InitMount ==
  /\ env \in { Env(EnvVar(TRUE, Stringify(v)), Unset, em, r, Unset, Unset) :
                 v \in TenantMapsOver({FullDef}), em \in EmailEnvValues, r \in RegionEnvValues }
  /\ BuildStart
  /\ MountOff
  /\ WatchdogOff

MountNext == BuildSteps \/ LaunchMaintenanceHost \/ BootScript

\* cloud-init runs the script to its end once the instance has booted
SpecMount == InitMount /\ [][MountNext]_vars /\ WF_vars(BootScript)

(***************************************************************************)
(* Runtime: the launcher and the idle watchdog of each tenant (contract of *)
(* the watchdog sidecar; its implementation is not among the sources).     *)
(***************************************************************************)
DigitValue(d) == (CHOOSE i \in 1..Len(Digits) : Digits[i] = d) - 1
\* the number a string of decimal digits denotes
RECURSIVE ParseMinutes(_)
ParseMinutes(str) ==
  IF str = <<>> THEN 0
  ELSE 10 * ParseMinutes(SubSeq(str, 1, Len(str) - 1)) + DigitValue(str[Len(str)])

\* the tenants the build has deployed
DeployedKeys == { k \in Keys : \E c \in containers : c.id = WatchDogContainerId(k) }
\* the environment the task of tenant k hands to its watchdog
WatchdogEnvOf(k) ==
  (CHOOSE c \in containers : c.kind = "watchdog" /\ c.id = WatchDogContainerId(k)).environment

\* whether the watchdog must request the scale-down, given what it has seen
IdleLimitReached(everConnected, idle, startupMin, shutdownMin) ==
  \/ ~everConnected /\ idle >= startupMin
  \/ everConnected /\ idle >= shutdownMin

WdOff == [running |-> FALSE, idle |-> 0, everConnected |-> FALSE]

\* the launcher starts the stopped service of tenant k; its task boots the watchdog
LauncherStart(k) ==
  /\ pc = "done"
  /\ k \in DeployedKeys
  /\ desiredCount[ServiceName(k)] = 0
  /\ desiredCount' = [desiredCount EXCEPT ![ServiceName(k)] = 1]
  /\ wdState' = [wdState EXCEPT ![k] = [running |-> TRUE, idle |-> 0, everConnected |-> FALSE]]
  /\ UNCHANGED <<buildVars, mountVars, scaleRequests>>

\* one poll (one minute) of tenant k's watchdog, which sees c connections
WatchdogPoll(k) ==
  /\ pc = "done"
  /\ k \in DeployedKeys
  /\ wdState[k].running
  /\ \E c \in 0..MaxConnections :
       LET e == WatchdogEnvOf(k)
           w == wdState[k]
           idle2 == w.idle + 1
       IN
       IF c > 0
       THEN /\ wdState' = [wdState EXCEPT ![k] = [running |-> TRUE, idle |-> 0,
                                                   everConnected |-> TRUE]]
            /\ UNCHANGED <<desiredCount, scaleRequests>>
       ELSE IF IdleLimitReached(w.everConnected, idle2,
                                ParseMinutes(e.STARTUPMIN), ParseMinutes(e.SHUTDOWNMIN))
       THEN /\ desiredCount' = [desiredCount EXCEPT ![e.SERVICE] = 0]
            /\ scaleRequests' =
                 { [by |-> k, service |-> e.SERVICE, connections |-> c, idle |-> idle2,
                    everConnected |-> w.everConnected] }
            \* the tasks of the service scaled to zero stop
            /\ wdState' = [t \in DOMAIN wdState |->
                             IF ServiceName(t) = e.SERVICE THEN WdOff
                             ELSE IF t = k THEN [w EXCEPT !.idle = idle2]
                             ELSE wdState[t]]
       ELSE /\ wdState' = [wdState EXCEPT ![k] = [w EXCEPT !.idle = idle2]]
            /\ UNCHANGED <<desiredCount, scaleRequests>>
  /\ UNCHANGED <<buildVars, mountVars>>

MinutesEnvValues ==
  { <<EnvVar(TRUE, <<"1">>), EnvVar(TRUE, <<"2">>)>>,
    <<EnvVar(TRUE, <<"2">>), EnvVar(TRUE, <<"1">>)>> }
\* the tenant maps run with the default timeouts (10 and 20 minutes)
DefaultTimeoutMaps == { v \in TenantMapsOver({FullDef}) : Len(v.m) <= 2 }

InitWatchdog ==
  /\ env \in { Env(EnvVar(TRUE, Stringify(v)), Unset, Unset, Unset, mm[1], mm[2]) :
                 v \in TenantMapsOver({FullDef}), mm \in MinutesEnvValues }
            \cup { Env(EnvVar(TRUE, Stringify(v)), Unset, Unset, Unset, Unset, Unset) :
                     v \in DefaultTimeoutMaps }
  /\ BuildStart
  /\ MountOff
  /\ wdState = [k \in Keys |-> WdOff]
  /\ desiredCount = [n \in {ServiceName(k) : k \in Keys} |-> 0]
  /\ scaleRequests = {}

WatchdogNext ==
  \/ BuildSteps
  \/ \E k \in Keys : LauncherStart(k)
  \/ \E k \in Keys : WatchdogPoll(k)

SpecWatchdog == InitWatchdog /\ [][WatchdogNext]_vars

(***************************************************************************)
(* IAM evaluation: what a policy allows.                                   *)
(***************************************************************************)
\* whether pattern p (a chunk "*" stands for any run of chunks) matches string str
RECURSIVE GlobMatch(_, _)
GlobMatch(p, str) ==
  IF p = <<>> THEN str = <<>>
  ELSE IF Head(p) = "*"
       THEN \E n \in 0..Len(str) : GlobMatch(Tail(p), SubSeq(str, n + 1, Len(str)))
       ELSE str # <<>> /\ Head(str) = Head(p) /\ GlobMatch(Tail(p), Tail(str))
ActionMatch(a, action) == a[1] = action[1] /\ (a[2] = "*" \/ a[2] = action[2])
Allows(policy, action, arn) ==
  \E st \in policy.statements :
    /\ \E a \in st.actions : ActionMatch(a, action)
    /\ \E r \in st.resources : GlobMatch(r, arn)
RolesOf(policyId) == { a.role : a \in {x \in attachments : x.policy = policyId} }

(***************************************************************************)
(* Properties                                                              *)
(***************************************************************************)
TenantMap == config.minecraftServerDefs
TenantKeys == { TenantMap[i].k : i \in 1..Len(TenantMap) }
ProcessedKeys == { TenantMap[i].k : i \in 1..loopIndex }
OfType(type) == { c \in constructs : c.type = type }
Suffixed(prefix, key) == <<prefix>> \o key
SharedBuilt == pc \in {"zone", "sns", "maintenance", "loop", "done"}

\* C1: a tenant map with N unique keys yields exactly N per-tenant subgraphs (task
\* definition, server container, watchdog container, service, each suffixed with its
\* key) and exactly one file system, access point, cluster and service security
\* group; every subgraph references the shared nodes and creates no copy of them.
C1_StructuralSharing ==
  /\ Cardinality(TenantKeys) = Len(TenantMap)
  /\ Cardinality(OfType("TaskDefinition")) = loopIndex
  /\ Cardinality(OfType("FargateService")) = loopIndex
  /\ Cardinality(OfType("ContainerDefinition")) = 2 * loopIndex
  /\ Cardinality(taskDefinitions) = loopIndex
  /\ Cardinality(services) = loopIndex
  /\ Cardinality({c \in containers : c.kind = "server"}) = loopIndex
  /\ Cardinality({c \in containers : c.kind = "watchdog"}) = loopIndex
  /\ pc = "done" => loopIndex = Len(TenantMap)
  /\ \A k \in ProcessedKeys :
       /\ Construct("TaskDefinition", Suffixed("TaskDefinition-", k)) \in constructs
       /\ Construct("ContainerDefinition", Suffixed("ServerContainer-", k)) \in constructs
       /\ Construct("ContainerDefinition", Suffixed("WatchDogContainer-", k)) \in constructs
       /\ Construct("FargateService", Suffixed("FargateService-", k)) \in constructs
       /\ \E td \in taskDefinitions : td.id = Suffixed("TaskDefinition-", k)
       /\ \E sv \in services :
            sv.id = Suffixed("FargateService-", k)
            /\ sv.taskDefinition = Suffixed("TaskDefinition-", k)
       /\ \A kind \in {"server", "watchdog"} :
            \E c \in containers :
              c.kind = kind /\ c.taskDefinition = Suffixed("TaskDefinition-", k)
  /\ SharedBuilt =>
       /\ Cardinality(OfType("FileSystem")) = 1
       /\ Cardinality(OfType("AccessPoint")) = 1
       /\ Cardinality(OfType("Cluster")) = 1
       /\ Cardinality(UNION {sv.securityGroups : sv \in services}) <= 1
       /\ \A sv \in services :
            /\ Construct("Cluster", sv.cluster) \in constructs
            /\ \A g \in sv.securityGroups : Construct("SecurityGroup", g) \in constructs
            /\ sv.securityGroups # {}
       /\ \A td \in taskDefinitions :
            /\ Construct("FileSystem", td.volume.fileSystemId) \in constructs
            /\ Construct("AccessPoint", td.volume.accessPointId) \in constructs
            /\ Construct("Role", td.taskRole) \in constructs
C1_Witness ==
  pc = "done" /\ Len(TenantMap) = MaxTenants /\ Cardinality(services) = MaxTenants

\* C2: for tenant keys k1 # k2 of one build, the control policy generated for k1
\* grants lifecycle actions on k1's service, not on k2's service, and grants nothing
\* on the DNS zone.
ControlPolicyOf(k) == CHOOSE p \in policies : p.id = Suffixed("ServiceControlPolicy-", k)
BuiltServiceArn(k) ==
  LET sv == CHOOSE x \in services : x.id = Suffixed("FargateService-", k) IN
  <<"arn:aws:ecs:", "region:account", ":service/", "minecraft", "/">> \o sv.serviceName
C2_TenantIsolation ==
  \A k1 \in ProcessedKeys :
    /\ \E p \in policies : p.id = Suffixed("ServiceControlPolicy-", k1)
    /\ Allows(ControlPolicyOf(k1), <<"ecs", "UpdateService">>, BuiltServiceArn(k1))
    /\ ~Allows(ControlPolicyOf(k1), <<"route53", "ChangeResourceRecordSets">>,
               <<"arn:aws:route53:::hostedzone/">> \o hostedZoneId)
    /\ \A k2 \in ProcessedKeys \ {k1} :
         /\ BuiltServiceArn(k1) # BuiltServiceArn(k2)
         /\ \A act \in {"UpdateService", "DeleteService", "DescribeServices"} :
              ~Allows(ControlPolicyOf(k1), <<"ecs", act>>, BuiltServiceArn(k2))
C2_Witness ==
  pc = "done" /\ Cardinality(ProcessedKeys) = MaxTenants /\ MaxTenants >= 2

\* C3: if a tenant definition lacks cpu or memory the build aborts naming the key,
\* with no per-tenant resource created; it never completes with that tenant.
LacksSize(def) == Get(def, <<"cpu">>).t # "num" \/ Get(def, <<"memory">>).t # "num"
C3_MissingSizeAborts ==
  (\E i \in 1..Len(TenantMap) : LacksSize(TenantMap[i].v))
    => (pc # "done" /\ taskDefinitions = {} /\ services = {} /\ containers = {})

\* C4: the shared service security group holds exactly one ingress rule per edition
\* in use: tenants sharing the edition produce one rule, not one per tenant, and an
\* empty tenant map produces none.
RuleSet == { ingressRules[i] : i \in 1..Len(ingressRules) }
C4_OneIngressRulePerEdition ==
  /\ Len(ingressRules) = (IF loopIndex >= 1 THEN 1 ELSE 0)
  /\ Cardinality(RuleSet) = Len(ingressRules)
  /\ ingressCalls = loopIndex
  /\ \A r \in RuleSet :
       /\ r.peer = "0.0.0.0/0"
       /\ r.port = (IF config.minecraftEdition = "bedrock" THEN <<"UDP 19132">> ELSE <<"25565">>)
  /\ (pc = "done" /\ Len(TenantMap) = 0) => ingressRules = <<>>
C4_Witness ==
  pc = "done" /\ ingressCalls >= 2 /\ Len(ingressRules) = 1
  /\ config.minecraftEdition = "bedrock"

\* C5: for every text that is not well-formed JSON (the absent and the empty text
\* included) resolving the tenant map does not throw: it returns the empty map and
\* emits a diagnostic, and the build is that of an empty tenant map; a diagnostic is
\* emitted on this path only.
JsonIsSet == env.MINECRAFT_SERVER_DEFS_JSON.set
JsonText == IF env.MINECRAFT_SERVER_DEFS_JSON.set THEN env.MINECRAFT_SERVER_DEFS_JSON.v ELSE <<>>
PerTenantTypes == {"TaskDefinition", "ContainerDefinition", "FargateService", "ImportedRole"}
C5_MalformedJsonFallsBack ==
  /\ pc = "config" => diagnostics = 0
  /\ (pc # "config" /\ JsonText \in MalformedTexts) =>
       /\ diagnostics = 1
       /\ TenantMap = <<>>
       /\ taskDefinitions = {} /\ containers = {} /\ services = {}
       /\ ingressRules = <<>>
       /\ \A c \in constructs : c.type \notin PerTenantTypes
       /\ Len(ssmLookups) <= 1
       /\ pc = "done" =>
            /\ loopIndex = 0
            /\ { p.id : p \in policies } = {<<"DataRWPolicy">>, <<"SSMManagedInstanceCorePolicy">>}
  /\ (pc # "config" /\ JsonIsSet /\ JsonText \in WellFormedTexts) => diagnostics = 0
  /\ diagnostics > 0 => JsonText \in MalformedTexts /\ TenantMap = <<>>
C5_Witness ==
  /\ pc = "done" /\ diagnostics = 1 /\ JsonIsSet
  /\ Len(JsonText) >= 10 /\ JsonText[Len(JsonText)] = RBrace

\* C6: a notification topic and an email subscription exist iff an operator email
\* is configured, and then exactly one of each whatever the tenant count; every
\* tenant's watchdog environment carries that topic's identifier, or the empty
\* string when no email is configured.
EmailConfigured == env.SNS_EMAIL_ADDRESS.set /\ env.SNS_EMAIL_ADDRESS.v # <<>>
SnsBuilt == pc \in {"maintenance", "loop", "done"}
C6_NotificationFanout ==
  /\ Cardinality(OfType("Topic")) = (IF SnsBuilt /\ EmailConfigured THEN 1 ELSE 0)
  /\ Cardinality(OfType("Subscription")) = Cardinality(OfType("Topic"))
  /\ Cardinality(subscriptions) = Cardinality(OfType("Topic"))
  /\ \A sub \in subscriptions :
       /\ sub.endpoint = env.SNS_EMAIL_ADDRESS.v
       /\ Construct("Topic", sub.topic) \in constructs
  /\ \A c \in containers :
       c.kind = "watchdog" =>
         IF EmailConfigured
         THEN \E tp \in OfType("Topic") : c.environment.SNSTOPIC = <<"arn:aws:sns:">> \o tp.id
         ELSE c.environment.SNSTOPIC = <<>>
C6_Witness ==
  /\ pc = "done" /\ EmailConfigured /\ Cardinality(OfType("Topic")) = 1
  /\ Cardinality({c \in containers : c.kind = "watchdog"}) = MaxTenants

\* C7: for every tenant key k the DNS-edit policy is attached to the task's own
\* identity only, never to a launcher identity, so only that identity can write the
\* records of the resolved hosted zone; k's control policy is attached to exactly the
\* task's identity and the launcher identity resolved for k, not another tenant's.
ZoneArn == <<"arn:aws:route53:::hostedzone/">> \o hostedZoneId
TaskRoleOf(k) ==
  (CHOOSE td \in taskDefinitions : td.id = Suffixed("TaskDefinition-", k)).taskRole
LauncherOf(k) ==
  LET i == CHOOSE j \in 1..Len(ssmLookups) :
             ssmLookups[j].id = Suffixed("launcherLambdaRoleArn-", k)
  IN ssmLookups[i].value
C7_DnsWritableByTaskOnly ==
  /\ \A k \in ProcessedKeys :
       /\ RolesOf(Suffixed("IamRoute53Policy-", k)) = {TaskRoleOf(k)}
       /\ RolesOf(Suffixed("ServiceControlPolicy-", k)) = {TaskRoleOf(k), LauncherOf(k)}
       /\ LauncherOf(k) # TaskRoleOf(k)
       /\ \A k2 \in ProcessedKeys \ {k} :
            /\ LauncherOf(k2) \notin RolesOf(Suffixed("ServiceControlPolicy-", k))
            /\ LauncherOf(k2) \notin RolesOf(Suffixed("IamRoute53Policy-", k))
       /\ \E p \in policies :
            /\ p.id = Suffixed("IamRoute53Policy-", k)
            /\ Allows(p, <<"route53", "ChangeResourceRecordSets">>, ZoneArn)
            /\ \A st \in p.statements : st.resources = {ZoneArn}
  /\ \A p \in policies :
       Allows(p, <<"route53", "ChangeResourceRecordSets">>, ZoneArn)
         => \A r \in RolesOf(p.id) : \E td \in taskDefinitions : td.taskRole = r
C7_Witness ==
  /\ pc = "done" /\ Cardinality(ProcessedKeys) = MaxTenants
  /\ \E k \in ProcessedKeys : Cardinality(RolesOf(Suffixed("ServiceControlPolicy-", k))) = 2

\* C8: within one build each cross-stack parameter {name, region} is looked up at
\* most once, and every consumer observes the value of that one lookup: each
\* tenant's watchdog environment and DNS-edit policy hold the hosted-zone id, each
\* tenant's control policy is attached to its launcher role.
LookupsOf(name, region) ==
  { i \in 1..Len(ssmLookups) : ssmLookups[i].name = name /\ ssmLookups[i].region = region }
C8_ParametersResolvedOnce ==
  /\ \A i \in 1..Len(ssmLookups) :
       Cardinality(LookupsOf(ssmLookups[i].name, ssmLookups[i].region)) = 1
  /\ Len(ssmLookups) = (IF pc \in {"sns", "maintenance", "loop", "done"} THEN 1 ELSE 0) + loopIndex
  /\ pc \in {"sns", "maintenance", "loop", "done"} =>
       /\ ssmLookups[1].name = <<"MinecraftHostedZoneID">>
       /\ hostedZoneId = ssmLookups[1].value
  /\ \A c \in containers :
       c.kind = "watchdog" => c.environment.DNSZONE = ssmLookups[1].value
  /\ \A p \in policies :
       (\E k \in ProcessedKeys : p.id = Suffixed("IamRoute53Policy-", k))
         => \A st \in p.statements :
              st.resources = {<<"arn:aws:route53:::hostedzone/">> \o ssmLookups[1].value}
  /\ \A k \in ProcessedKeys :
       /\ \E i \in 1..Len(ssmLookups) :
            /\ ssmLookups[i].name = <<"LauncherLambdaRoleArn", "-">> \o k
            /\ ssmLookups[i].value \in RolesOf(Suffixed("ServiceControlPolicy-", k))
C8_Witness ==
  /\ pc = "done" /\ Cardinality(ProcessedKeys) = MaxTenants
  /\ hostedZoneId # getParameterValue(ssmStore, HOSTED_ZONE_SSM_PARAMETER)
  /\ \A c \in containers : c.kind = "watchdog" => c.environment.DNSZONE = hostedZoneId

\* C9: a tenant's watchdog, running with the startup and shutdown minutes of the
\* configuration, never requests a scale-down while a connection is active; once no
\* connection has been seen for startup minutes after boot (no connection ever made)
\* or for shutdown minutes after the last activity it requests that its own service,
\* and no other tenant's, be scaled to zero; a loop never blocks on another's.
ConfiguredStartup == ParseMinutes(config.startupMinutes)
ConfiguredShutdown == ParseMinutes(config.shutdownMinutes)
LimitFor(ever) == IF ever THEN ConfiguredShutdown ELSE ConfiguredStartup
C9_WatchdogContract ==
  /\ \A r \in scaleRequests :
       /\ r.connections = 0
       /\ r.idle >= LimitFor(r.everConnected)
       /\ r.service = <<"minecraft-server", "-">> \o r.by
  /\ \A k \in DOMAIN wdState :
       wdState[k].running =>
         /\ wdState[k].idle < LimitFor(wdState[k].everConnected)
         /\ desiredCount[<<"minecraft-server", "-">> \o k] = 1
         /\ ENABLED WatchdogPoll(k)
  /\ \A k \in DOMAIN wdState :
       (pc = "done" /\ k \in DeployedKeys /\ ~wdState[k].running)
         => desiredCount[<<"minecraft-server", "-">> \o k] = 0
C9_Witness ==
  /\ \E r \in scaleRequests :
       /\ r.everConnected /\ r.idle = ConfiguredShutdown
       /\ ~wdState[r.by].running
       /\ \E k \in DOMAIN wdState \ {r.by} : wdState[k].running /\ wdState[k].idle > 0
  /\ ConfiguredStartup < ConfiguredShutdown

\* C10 (as the claim states it): the mount loop performs at most 15 mount attempts
\* and gives up after the 15th.
C10_AtMostFifteenAttempts ==
  /\ mountAttempts <= 15
  /\ (mountPc = "done" /\ ~mounted) => mountAttempts = 15

\* C10 (amended): the mount loop always terminates and performs at most 16 mount
\* attempts, the first and up to 15 retries, waiting 30 seconds between consecutive
\* attempts; it stops at the first successful mount, gives up after the 16th failed
\* attempt, and leaves the instance running.
MountLoopInv ==
  /\ mountAttempts <= 16
  /\ retryCnt >= 0
  /\ mountPc \in {"sleep", "mount"} => ~mounted
  /\ mountPc = "mount" => sleeps = mountAttempts
  /\ mountPc \in {"test", "sleep", "done"} => sleeps = mountAttempts - 1
  /\ mountPc = "sleep" => sleptSeconds = 30 * (mountAttempts - 1)
  /\ mountPc # "sleep" => sleptSeconds = 30 * sleeps
  /\ mountPc = "done" => (mounted \/ mountAttempts = 16)
  /\ mountPc # "off" => instanceState = "running"
C10_MountLoopTerminates ==
  /\ []MountLoopInv
  /\ (mountPc # "off") ~> (mountPc = "done")
C10_Witness ==
  mountPc = "done" /\ ~mounted /\ mountAttempts = 16 /\ sleptSeconds = 450

====
